---------------------------- MODULE Spec2Model ----------------------------
(***************************************************************************)
(* Model of basic_auth/collection.py: the in-memory and the database-      *)
(* backed collections of Basic-Auth credentials, and the token helpers     *)
(* _prep_token and _get_auth.                                              *)
(*                                                                         *)
(* A Python string is a sequence of symbols.  A symbol is one character    *)
(* ("a", ":", ...) or the digest of a string, written "H(<string>)": the   *)
(* hexadecimal text hash_token256 returns, kept as one symbol because the  *)
(* code never looks inside it.  A digest holds no ':' and is not empty.    *)
(***************************************************************************)
EXTENDS Integers, Sequences, FiniteSets, TLC

VARIABLES
    items,      \* MemoryCredentialsCollection.items: user -> stored token
    lock,       \* asyncio.Lock: the task that holds it, or NoTask
    waiters,    \* asyncio.Lock: the tasks waiting in acquire(), in order
    db,         \* the persistence model's table: user -> [username, password]
    isolation,  \* what the transaction scope of @transact grants
    txn,        \* the task whose transaction is open under serializable isolation
    pc,         \* per task: where the task is in the operation it called
    call,       \* per task: the operation called and its arguments
    local,      \* per task: the locals of the operation between two awaits
    res,        \* per task: the outcome of the operation
    ncalls,     \* the number of operations called so far
    both,       \* the lockstep calls and the outcomes of the two stores on each
    ptok,       \* the token handed to _prep_token
    pout,       \* what _prep_token returned last
    pn          \* how many times _prep_token was applied

vars == <<items, lock, waiters, db, isolation, txn, pc, call, local, res,
          ncalls, both, ptok, pout, pn>>

---------------------------------------------------------------------------
(* Strings *)

\* Python's None; no string equals it, because "None" is not a symbol.
None == <<"None">>

Colon == ":"

RECURSIVE Flat(_)
\* The text of a string, symbol after symbol.
Flat(s) == IF s = <<>> THEN "" ELSE Head(s) \o Flat(Tail(s))

\* hash_token256: deterministic, one-way, injective (collision-resistant);
\* its output is one digest symbol.
hash_token256(s) == << "H(" \o Flat(s) \o ")" >>

\* A string that hash_token256 returned: one digest symbol.
IsHashOutput(s) == Len(s) = 1 /\ Len(s[1]) > 1

RECURSIVE split(_)
\* str.split(':'): the parts between the colons, empty parts kept.
split(s) ==
    IF \A i \in 1..Len(s) : s[i] # Colon
    THEN << s >>
    ELSE LET i == CHOOSE k \in 1..Len(s) :
                      s[k] = Colon /\ \A j \in 1..(k - 1) : s[j] # Colon
         IN  << SubSeq(s, 1, i - 1) >> \o split(SubSeq(s, i + 1, Len(s)))

RECURSIVE join(_)
\* ':'.join(parts)
join(parts) ==
    IF Len(parts) = 0 THEN <<>>
    ELSE IF Len(parts) = 1 THEN parts[1]
    ELSE parts[1] \o << Colon >> \o join(Tail(parts))

\* '' in split
HasEmptyPart(parts) == \E i \in 1..Len(parts) : parts[i] = <<>>

---------------------------------------------------------------------------
(* Token helpers *)

\* _prep_token with the hashing left out: the token is returned as given.
_prep_token_NoHash(token) == token

\* _prep_token that hashes whenever there are two parts, empty or not.
_prep_token_HashEmpty(token) ==
    IF token = None THEN None
    ELSE LET parts == split(token)
         IN  IF Len(parts) = 2
             THEN join(<< parts[1], hash_token256(parts[2]) >>)
             ELSE token

\* _prep_token(token)
_prep_token(token) ==
    IF token = None THEN None
    ELSE LET parts == split(token)
         IN  IF Len(parts) = 2 /\ ~HasEmptyPart(parts)
             THEN join(<< parts[1], hash_token256(parts[2]) >>)
             ELSE token


---------------------------------------------------------------------------
(* Credential codec (credential.py) *)

\* What from_token answers for a token it refuses (MalformedToken); the
\* stores surface it as InvalidDetails.
Malformed == [username |-> <<>>, password |-> <<>>]

\* BasicAuthCredentials.from_token: the token's two non-empty parts.
from_token(token) ==
    LET parts == split(token)
    IN  IF Len(parts) = 2 /\ ~HasEmptyPart(parts)
        THEN [username |-> parts[1], password |-> parts[2]]
        ELSE Malformed

\* A raw token 'username:plaintext': two non-empty parts.
IsRawToken(token) == token # None /\ from_token(token) # Malformed

\* str(auth): 'username:password'
str(auth) == join(<< auth.username, auth.password >>)

\* BasicAuthCredentials.generate(): a random username and password.  Two
\* calls may return the same pair: unlikely, not impossible.
Generated ==
    { [username |-> u, password |-> << "p" >>] : u \in { << "g" >>, << "h" >> } }

\* _get_auth(token); gen is what generate() returns if it is called.
_get_auth(token, gen) ==
    IF token # None /\ token # <<>> THEN from_token(token) ELSE gen

---------------------------------------------------------------------------
(* Outcomes *)

NoTask == "none"

\* What an operation returns or raises: status is "ok" or the error raised,
\* token the token of the returned details, match the boolean returned,
\* all is the mapping get_all returned.
Outcome(status, token, match) ==
    [status |-> status, token |-> token, match |-> match, all |-> <<>>]

Ok(token) == Outcome("ok", token, FALSE)
Raise(error) == Outcome(error, None, FALSE)
NoOutcome == Outcome("none", None, FALSE)

\* A store's answer: the mapping after the operation, and the outcome.
Answer(store, outcome) == [store |-> store, res |-> outcome]

\* The mapping m with key k set to v, k in its domain or not.
Put(m, k, v) == [x \in DOMAIN m \cup {k} |-> IF x = k THEN v ELSE m[x]]

\* The mapping m without key k.
Remove(m, k) == [x \in DOMAIN m \ {k} |-> m[x]]

---------------------------------------------------------------------------
(* SampleResourceCollection (api/sample.py): the generic keyed store *)

\* create(details): insert keyed by details['user'].
SampleCreate(its, user, token) ==
    IF user \in DOMAIN its
    THEN Answer(its, Raise("AlreadyExists"))
    ELSE Answer(Put(its, user, token), Ok(token))

\* update(res_id, details): overwrite the record's details.
SampleUpdate(its, user, token) ==
    IF user \notin DOMAIN its
    THEN Answer(its, Raise("NotFound"))
    ELSE Answer(Put(its, user, token), Ok(token))

\* delete(res_id)
SampleDelete(its, user) ==
    IF user \notin DOMAIN its
    THEN Answer(its, Raise("NotFound"))
    ELSE Answer(Remove(its, user), Ok(None))

\* get(res_id)
SampleGet(its, user) ==
    IF user \notin DOMAIN its
    THEN Answer(its, Raise("NotFound"))
    ELSE Answer(its, Ok(its[user]))

---------------------------------------------------------------------------
(* MemoryCredentialsCollection *)

VALID_API_CREDENTIALS == << << "u", "s", "e", "r" >>, << "p", "a", "s", "s" >> >>

\* _check_duplicated_username that does not except the user's own record.
Memory_check_duplicated_username_NoSelf(its, user, username) ==
    \E other_user \in DOMAIN its :
        from_token(its[other_user]).username = username

\* _check_duplicated_username that never raises.
Memory_check_duplicated_username_Never(its, user, username) == FALSE

\* _check_duplicated_username(user, username): TRUE when it raises
\* InvalidResourceDetails.
Memory_check_duplicated_username(its, user, username) ==
    \E other_user \in DOMAIN its :
        /\ from_token(its[other_user]).username = username
        /\ user # other_user

\* create, lines 36-39, and update, lines 48-51: the token to store, or the
\* error raised.  prepped and auth are the code's locals token and auth,
\* each bound to its value once.
MemoryPrepare(its, user, token, gen) ==
    CHOOSE prepared \in
        { IF auth = Malformed THEN Raise("InvalidDetails")
          ELSE IF Memory_check_duplicated_username(its, user, auth.username)
          THEN Raise("InvalidDetails")
          ELSE Ok(str(auth)) :
            auth \in { _get_auth(prepped, gen) :
                         prepped \in { _prep_token(token) } } } : TRUE

\* create(details), the whole body.
MemoryCreate(its, user, token, gen) ==
    LET prepared == MemoryPrepare(its, user, token, gen)
    IN  IF prepared.status # "ok" THEN Answer(its, prepared)
        ELSE SampleCreate(its, user, prepared.token)

\* update(user, details), the whole body.
MemoryUpdate(its, user, token, gen) ==
    LET prepared == MemoryPrepare(its, user, token, gen)
    IN  IF prepared.status # "ok" THEN Answer(its, prepared)
        ELSE SampleUpdate(its, user, prepared.token)

\* credentials_match that compares the password as given, not its hash.
Memory_credentials_match_Plain(its, username, password) ==
    \E u \in DOMAIN its : its[u] = join(<< username, password >>)

\* credentials_match(username, password)
Memory_credentials_match(its, username, password) ==
    \E u \in DOMAIN its : its[u] = join(<< username, hash_token256(password) >>)

\* api_credentials_match that hashes the password before comparing.
Memory_api_credentials_match_Hashed(username, password) ==
    << username, hash_token256(password) >> = VALID_API_CREDENTIALS

\* api_credentials_match(username, password)
Memory_api_credentials_match(username, password) ==
    << username, password >> = VALID_API_CREDENTIALS

---------------------------------------------------------------------------
(* The persistence model (db.py and the model it hands to @transact) *)

\* What get_credentials returns when no record matches.
NoUser == "-"

\* model.is_known_user(user)
is_known_user(d, user) == user \in DOMAIN d

\* model.get_credentials(username=...): the users get_credentials may
\* return; one record is returned, whichever the query finds when several
\* hold the username.
get_credentials(d, username) ==
    LET found == { u \in DOMAIN d : d[u].username = username }
    IN  IF found = {} THEN { NoUser } ELSE found

\* model.add_credentials(user, username, password)
add_credentials(d, user, username, password) ==
    Put(d, user, [username |-> username, password |-> password])

\* model.update_credentials(user, username, password): no row, no change.
update_credentials(d, user, username, password) ==
    IF user \in DOMAIN d
    THEN Put(d, user, [username |-> username, password |-> password])
    ELSE d

\* model.remove_credentials(user): the table afterwards.
remove_credentials(d, user) == Remove(d, user)

---------------------------------------------------------------------------
(* DataBaseCredentialsCollection *)

\* _check_duplicated_username that raises for the user's own record too.
DataBase_check_duplicated_username_NoSelf(user, credentials) ==
    credentials # NoUser

\* _check_duplicated_username that never raises.
DataBase_check_duplicated_username_Never(user, credentials) == FALSE

\* _check_duplicated_username(model, user, username), given the record
\* get_credentials(username=username) returned: TRUE when it raises.
DataBase_check_duplicated_username(user, credentials) ==
    credentials # NoUser /\ credentials # user

\* create and update, lines 95-96 and 133-134: the credentials to persist,
\* or the error raised.
DataBasePrepare(user, token, gen, credentials) ==
    LET auth == _get_auth(token, gen)
    IN  IF auth = Malformed THEN Raise("InvalidDetails")
        ELSE IF DataBase_check_duplicated_username(user, credentials)
        THEN Raise("InvalidDetails")
        ELSE Ok(str(auth))

\* create that checks the token before the user key.
DataBaseCreate_TokenFirst(d, user, token, gen, credentials) ==
    LET prepared == DataBasePrepare(user, token, gen, credentials)
        auth == from_token(prepared.token)
    IN  IF prepared.status # "ok" THEN Answer(d, prepared)
        ELSE IF is_known_user(d, user) THEN Answer(d, Raise("AlreadyExists"))
        ELSE Answer(add_credentials(d, user, auth.username, auth.password),
                    prepared)

\* create(model, details), the whole transaction; credentials is what
\* get_credentials(username=auth.username) returns.
DataBaseCreate(d, user, token, gen, credentials) ==
    IF is_known_user(d, user) THEN Answer(d, Raise("AlreadyExists"))
    ELSE LET prepared == DataBasePrepare(user, token, gen, credentials)
             auth == from_token(prepared.token)
         IN  IF prepared.status # "ok" THEN Answer(d, prepared)
             ELSE Answer(add_credentials(d, user, auth.username, auth.password),
                         prepared)

\* update that calls update_credentials before _check_duplicated_username,
\* in a transaction that is not rolled back.
DataBaseUpdate_WriteFirst(d, user, token, gen, credentials) ==
    IF ~is_known_user(d, user) THEN Answer(d, Raise("NotFound"))
    ELSE LET prepared == DataBasePrepare(user, token, gen, credentials)
             auth == _get_auth(token, gen)
         IN  Answer(update_credentials(d, user, auth.username, auth.password),
                    prepared)

\* update(model, user, details), the whole transaction.
DataBaseUpdate(d, user, token, gen, credentials) ==
    IF ~is_known_user(d, user) THEN Answer(d, Raise("NotFound"))
    ELSE LET prepared == DataBasePrepare(user, token, gen, credentials)
             auth == from_token(prepared.token)
         IN  IF prepared.status # "ok" THEN Answer(d, prepared)
             ELSE Answer(update_credentials(d, user, auth.username,
                                            auth.password),
                         prepared)

\* delete that answers without removing the record.
DataBaseDelete_Keep(d, user) ==
    IF is_known_user(d, user)
    THEN Answer(d, Ok(None))
    ELSE Answer(d, Raise("NotFound"))

\* delete that does not raise when remove_credentials removed nothing.
DataBaseDelete_Silent(d, user) == Answer(remove_credentials(d, user), Ok(None))

\* delete(model, user)
DataBaseDelete(d, user) ==
    IF is_known_user(d, user)
    THEN Answer(remove_credentials(d, user), Ok(None))
    ELSE Answer(d, Raise("NotFound"))

\* get(model, user)
DataBaseGet(d, user) ==
    IF is_known_user(d, user)
    THEN Answer(d, Ok(join(<< d[user].username, d[user].password >>)))
    ELSE Answer(d, Raise("NotFound"))

---------------------------------------------------------------------------
(* Bounds and inputs *)

\* The operations called in one run of a store.
MaxCalls == 3

\* The applications of _prep_token in one run.
MaxPrep == 2

\* The longest raw token handed to _prep_token, in symbols.
MaxTokenLen == 4

Tasks == { "t1", "t2" }

Users == { "u1", "u2" }

\* The tokens callers supply: none, empty, without a colon, raw two-part
\* tokens (two usernames, two passwords), and a token whose password is
\* already a digest.
Tokens ==
    { None, <<>>, << "a" >>,
      << "a", ":", "x" >>, << "a", ":", "y" >>, << "b", ":", "x" >>,
      << "a", ":" >> \o hash_token256(<< "x" >>) }

\* The usernames and passwords presented to credentials_match.
MatchUsernames == { << "a" >>, << "b" >>, << "g" >>, << "a", ":", "x" >> }
MatchPasswords == { << "x" >>, << "y" >>, << "p" >>, hash_token256(<< "x" >>) }

\* The pairs presented to api_credentials_match.
ApiPairs == { VALID_API_CREDENTIALS, << << "a" >>, << "x" >> >> }

\* A call: the operation and its arguments.
Call(op, user, token, username, password) ==
    [op |-> op, user |-> user, token |-> token,
     username |-> username, password |-> password]

NoCall == Call("none", NoUser, None, <<>>, <<>>)

\* The calls of the resource contract that both stores answer.
ResourceCalls ==
    { Call(op, u, tok, <<>>, <<>>) :
        op \in { "create", "update" }, u \in Users, tok \in Tokens }
    \cup { Call(op, u, None, <<>>, <<>>) : op \in { "delete", "get" }, u \in Users }

\* Every call on the in-memory store.
MemoryCalls ==
    ResourceCalls
    \cup { Call("credentials_match", NoUser, None, un, pw) :
             un \in MatchUsernames, pw \in MatchPasswords }
    \cup { Call("get_all", NoUser, None, <<>>, <<>>) }
    \cup { Call("api_credentials_match", NoUser, None, pair[1], pair[2]) :
             pair \in ApiPairs }

\* The methods of MemoryCredentialsCollection decorated with @locking.
Locking == { "create", "update", "delete", "get", "credentials_match" }

RECURSIVE Strings(_)
\* The strings over a, x and ':' of at most n symbols.
Strings(n) ==
    IF n = 0 THEN { <<>> }
    ELSE LET shorter == Strings(n - 1)
         IN  shorter \cup { Append(s, c) : s \in shorter, c \in { "a", "x", Colon } }

\* The tokens handed to _prep_token.
PrepInputs == Strings(MaxTokenLen) \cup { None }

---------------------------------------------------------------------------
(* Initial state: both stores empty, every task idle *)

Init ==
    /\ items = <<>>
    /\ lock = NoTask
    /\ waiters = <<>>
    /\ db = <<>>
    /\ isolation = "serializable"
    /\ txn = NoTask
    /\ pc = [t \in Tasks |-> "idle"]
    /\ call = [t \in Tasks |-> NoCall]
    /\ local = [t \in Tasks |-> None]
    /\ res = [t \in Tasks |-> NoOutcome]
    /\ ncalls = 0
    /\ both = [call |-> NoCall, mem |-> NoOutcome, db |-> NoOutcome, log |-> <<>>]
    /\ ptok = None
    /\ pout = None
    /\ pn = 0

dbVars == <<db, isolation, txn>>
prepVars == <<ptok, pout, pn>>
lockVars == <<lock, waiters>>

---------------------------------------------------------------------------
(* The in-memory store called by concurrent tasks.  A task suspends only  *)
(* at an await: in the lock's acquire(), and where a method awaits the    *)
(* generic store (super().create, super().update, ...).                    *)

\* Task t calls an operation.  A @locking method first waits for the lock;
\* get_all and api_credentials_match run their body at once.
MemoryCall(t) ==
    /\ pc[t] = "idle"
    /\ ncalls < MaxCalls
    /\ \E c \in MemoryCalls :
        /\ call' = [call EXCEPT ![t] = c]
        /\ IF c.op \in Locking
           THEN /\ pc' = [pc EXCEPT ![t] = "acquire"]
                /\ waiters' = Append(waiters, t)
           ELSE /\ pc' = [pc EXCEPT ![t] = "body"]
                /\ waiters' = waiters
    /\ ncalls' = ncalls + 1
    /\ UNCHANGED <<items, lock, local, res, both, dbVars, prepVars>>

\* @locking, `async with self.lock` entered: the first waiter takes the
\* free lock.
Acquire(t) ==
    /\ pc[t] = "acquire"
    /\ lock = NoTask
    /\ waiters # <<>> /\ Head(waiters) = t
    /\ lock' = t
    /\ waiters' = Tail(waiters)
    /\ pc' = [pc EXCEPT ![t] = "body"]
    /\ UNCHANGED <<items, call, local, res, ncalls, both, dbVars, prepVars>>

\* @locking, `async with self.lock` left, by return or by exception: the
\* lock is released and the caller gets the outcome.
Release(t) ==
    /\ pc[t] = "release"
    /\ lock' = NoTask
    /\ pc' = [pc EXCEPT ![t] = "idle"]
    /\ call' = [call EXCEPT ![t] = NoCall]
    /\ res' = [res EXCEPT ![t] = NoOutcome]
    /\ UNCHANGED <<items, waiters, local, ncalls, both, dbVars, prepVars>>

\* create and update up to their await (lines 36-39, 48-51): raise, or keep
\* the token to store in details['token'].
Prepare(t) ==
    /\ pc[t] = "body"
    /\ call[t].op \in { "create", "update" }
    /\ \E gen \in Generated :
        LET prepared == MemoryPrepare(items, call[t].user, call[t].token, gen)
        IN  IF prepared.status = "ok"
            THEN /\ local' = [local EXCEPT ![t] = prepared.token]
                 /\ pc' = [pc EXCEPT ![t] = "super"]
                 /\ res' = res
            ELSE /\ res' = [res EXCEPT ![t] = prepared]
                 /\ pc' = [pc EXCEPT ![t] = "release"]
                 /\ local' = local
    /\ UNCHANGED <<items, lockVars, call, ncalls, both, dbVars, prepVars>>

\* create that calls self.create, a @locking method, where the code calls
\* super().create: the task waits for the lock it holds.
Create_SelfCall(t) ==
    /\ pc[t] = "super"
    /\ call[t].op = "create"
    /\ pc' = [pc EXCEPT ![t] = "acquire"]
    /\ waiters' = Append(waiters, t)
    /\ UNCHANGED <<items, lock, call, local, res, ncalls, both, dbVars, prepVars>>

\* create, line 40: super().create(details)
Create(t) ==
    /\ pc[t] = "super"
    /\ call[t].op = "create"
    /\ LET answer == SampleCreate(items, call[t].user, local[t])
       IN  /\ items' = answer.store
           /\ res' = [res EXCEPT ![t] = answer.res]
    /\ pc' = [pc EXCEPT ![t] = "release"]
    /\ local' = [local EXCEPT ![t] = None]
    /\ UNCHANGED <<lockVars, call, ncalls, both, dbVars, prepVars>>

\* update, line 52: super().update(user, details)
Update(t) ==
    /\ pc[t] = "super"
    /\ call[t].op = "update"
    /\ LET answer == SampleUpdate(items, call[t].user, local[t])
       IN  /\ items' = answer.store
           /\ res' = [res EXCEPT ![t] = answer.res]
    /\ pc' = [pc EXCEPT ![t] = "release"]
    /\ local' = [local EXCEPT ![t] = None]
    /\ UNCHANGED <<lockVars, call, ncalls, both, dbVars, prepVars>>

\* delete, line 57: super().delete(res_id)
Delete(t) ==
    /\ pc[t] = "body"
    /\ call[t].op = "delete"
    /\ LET answer == SampleDelete(items, call[t].user)
       IN  /\ items' = answer.store
           /\ res' = [res EXCEPT ![t] = answer.res]
    /\ pc' = [pc EXCEPT ![t] = "release"]
    /\ UNCHANGED <<lockVars, call, local, ncalls, both, dbVars, prepVars>>

\* get, line 62: super().get(res_id)
Get(t) ==
    /\ pc[t] = "body"
    /\ call[t].op = "get"
    /\ LET answer == SampleGet(items, call[t].user)
       IN  /\ items' = answer.store
           /\ res' = [res EXCEPT ![t] = answer.res]
    /\ pc' = [pc EXCEPT ![t] = "release"]
    /\ UNCHANGED <<lockVars, call, local, ncalls, both, dbVars, prepVars>>

\* credentials_match, lines 67-68
CredentialsMatch(t) ==
    /\ pc[t] = "body"
    /\ call[t].op = "credentials_match"
    /\ res' = [res EXCEPT ![t] =
                  Outcome("ok", None,
                          Memory_credentials_match(items, call[t].username,
                                                   call[t].password))]
    /\ pc' = [pc EXCEPT ![t] = "release"]
    /\ UNCHANGED <<items, lockVars, call, local, ncalls, both, dbVars, prepVars>>

\* get_all, line 44: super().get_all(), not under @locking.
GetAll(t) ==
    /\ pc[t] = "body"
    /\ call[t].op = "get_all"
    /\ res' = [res EXCEPT ![t] = [Ok(None) EXCEPT !.all = items]]
    /\ pc' = [pc EXCEPT ![t] = "return"]
    /\ UNCHANGED <<items, lockVars, call, local, ncalls, both, dbVars, prepVars>>

\* api_credentials_match, line 72, not under @locking.
ApiCredentialsMatch(t) ==
    /\ pc[t] = "body"
    /\ call[t].op = "api_credentials_match"
    /\ res' = [res EXCEPT ![t] =
                  Outcome("ok", None,
                          Memory_api_credentials_match(call[t].username,
                                                       call[t].password))]
    /\ pc' = [pc EXCEPT ![t] = "return"]
    /\ UNCHANGED <<items, lockVars, call, local, ncalls, both, dbVars, prepVars>>

\* A method that takes no lock returns to its caller.
Return(t) ==
    /\ pc[t] = "return"
    /\ pc' = [pc EXCEPT ![t] = "idle"]
    /\ call' = [call EXCEPT ![t] = NoCall]
    /\ res' = [res EXCEPT ![t] = NoOutcome]
    /\ UNCHANGED <<items, lockVars, local, ncalls, both, dbVars, prepVars>>

Next ==
    \E t \in Tasks :
        \/ MemoryCall(t)
        \/ Acquire(t)
        \/ Prepare(t)
        \/ Create(t)
        \/ Update(t)
        \/ Delete(t)
        \/ Get(t)
        \/ CredentialsMatch(t)
        \/ GetAll(t)
        \/ ApiCredentialsMatch(t)
        \/ Return(t)
        \/ Release(t)

Spec == Init /\ [][Next]_vars

---------------------------------------------------------------------------
(* The database-backed store called by concurrent tasks.  @transact runs  *)
(* each method in one transaction; a task suspends at every await of the  *)
(* model.  Under serializable isolation a transaction runs as if alone:   *)
(* it is modelled as holding txn from its begin to its end.  With no      *)
(* isolation the transactions' steps interleave freely.                   *)

InitDB ==
    /\ Init!1 /\ Init!2 /\ Init!3 /\ Init!4
    /\ isolation \in { "serializable", "none" }
    /\ txn = NoTask
    /\ pc = [t \in Tasks |-> "idle"]
    /\ call = [t \in Tasks |-> NoCall]
    /\ local = [t \in Tasks |-> None]
    /\ res = [t \in Tasks |-> NoOutcome]
    /\ ncalls = 0
    /\ both = [call |-> NoCall, mem |-> NoOutcome, db |-> NoOutcome, log |-> <<>>]
    /\ ptok = None
    /\ pout = None
    /\ pn = 0

memVars == <<items, lock, waiters>>

\* Task t calls create, update, delete or get.
DataBaseCall(t) ==
    /\ pc[t] = "idle"
    /\ ncalls < MaxCalls
    /\ \E c \in ResourceCalls : call' = [call EXCEPT ![t] = c]
    /\ pc' = [pc EXCEPT ![t] = "begin"]
    /\ ncalls' = ncalls + 1
    /\ UNCHANGED <<db, isolation, txn, local, res, both, memVars, prepVars>>

\* @transact opens the transaction.
Begin(t) ==
    /\ pc[t] = "begin"
    /\ isolation = "serializable" => txn = NoTask
    /\ txn' = IF isolation = "serializable" THEN t ELSE txn
    /\ pc' = [pc EXCEPT ![t] =
                 IF call[t].op \in { "create", "update" } THEN "known" ELSE "body"]
    /\ UNCHANGED <<db, isolation, call, local, res, ncalls, both, memVars, prepVars>>

\* create, lines 91-93, and update, lines 131-132: is_known_user(user)
Known(t) ==
    /\ pc[t] = "known"
    /\ LET known == is_known_user(db, call[t].user)
       IN  IF call[t].op = "create" /\ known
           THEN /\ res' = [res EXCEPT ![t] = Raise("AlreadyExists")]
                /\ pc' = [pc EXCEPT ![t] = "end"]
           ELSE IF call[t].op = "update" /\ ~known
           THEN /\ res' = [res EXCEPT ![t] = Raise("NotFound")]
                /\ pc' = [pc EXCEPT ![t] = "end"]
           ELSE /\ res' = res
                /\ pc' = [pc EXCEPT ![t] = "check"]
    /\ UNCHANGED <<db, isolation, txn, call, local, ncalls, both, memVars, prepVars>>

\* create, lines 95-96, and update, lines 133-134: _get_auth, then
\* _check_duplicated_username with its get_credentials(username=...)
Check(t) ==
    /\ pc[t] = "check"
    /\ \E gen \in Generated :
        \E credentials \in
              get_credentials(db, _get_auth(call[t].token, gen).username) :
            LET prepared ==
                    DataBasePrepare(call[t].user, call[t].token, gen, credentials)
            IN  IF prepared.status = "ok"
                THEN /\ local' = [local EXCEPT ![t] = prepared.token]
                     /\ pc' = [pc EXCEPT ![t] = "write"]
                     /\ res' = res
                ELSE /\ res' = [res EXCEPT ![t] = prepared]
                     /\ pc' = [pc EXCEPT ![t] = "end"]
                     /\ local' = local
    /\ UNCHANGED <<db, isolation, txn, call, ncalls, both, memVars, prepVars>>

\* add_credentials on a table with a unique constraint on the username: an
\* insert for a username another record holds fails.
Add_UniqueUsername(t) ==
    /\ pc[t] = "write"
    /\ call[t].op = "create"
    /\ LET auth == from_token(local[t])
       IN  IF \/ is_known_user(db, call[t].user)
              \/ get_credentials(db, auth.username) # { NoUser }
           THEN /\ db' = db
                /\ res' = [res EXCEPT ![t] = Raise("IntegrityError")]
           ELSE /\ db' = add_credentials(db, call[t].user, auth.username,
                                         auth.password)
                /\ res' = [res EXCEPT ![t] = Ok(local[t])]
    /\ pc' = [pc EXCEPT ![t] = "end"]
    /\ local' = [local EXCEPT ![t] = None]
    /\ UNCHANGED <<isolation, txn, call, ncalls, both, memVars, prepVars>>

\* create, lines 97-99: add_credentials.  The user is the table's key: an
\* insert for a user another transaction added meanwhile fails.
Add(t) ==
    /\ pc[t] = "write"
    /\ call[t].op = "create"
    /\ LET auth == from_token(local[t])
       IN  IF is_known_user(db, call[t].user)
           THEN /\ db' = db
                /\ res' = [res EXCEPT ![t] = Raise("IntegrityError")]
           ELSE /\ db' = add_credentials(db, call[t].user, auth.username,
                                         auth.password)
                /\ res' = [res EXCEPT ![t] = Ok(local[t])]
    /\ pc' = [pc EXCEPT ![t] = "end"]
    /\ local' = [local EXCEPT ![t] = None]
    /\ UNCHANGED <<isolation, txn, call, ncalls, both, memVars, prepVars>>

\* update, lines 135-137: update_credentials
Write(t) ==
    /\ pc[t] = "write"
    /\ call[t].op = "update"
    /\ LET auth == from_token(local[t])
       IN  db' = update_credentials(db, call[t].user, auth.username,
                                    auth.password)
    /\ res' = [res EXCEPT ![t] = Ok(local[t])]
    /\ pc' = [pc EXCEPT ![t] = "end"]
    /\ local' = [local EXCEPT ![t] = None]
    /\ UNCHANGED <<isolation, txn, call, ncalls, both, memVars, prepVars>>

\* delete, lines 113-117
DataBaseRemove(t) ==
    /\ pc[t] = "body"
    /\ call[t].op = "delete"
    /\ LET answer == DataBaseDelete(db, call[t].user)
       IN  /\ db' = answer.store
           /\ res' = [res EXCEPT ![t] = answer.res]
    /\ pc' = [pc EXCEPT ![t] = "end"]
    /\ UNCHANGED <<isolation, txn, call, local, ncalls, both, memVars, prepVars>>

\* get, lines 122-126
DataBaseRead(t) ==
    /\ pc[t] = "body"
    /\ call[t].op = "get"
    /\ LET answer == DataBaseGet(db, call[t].user)
       IN  /\ db' = answer.store
           /\ res' = [res EXCEPT ![t] = answer.res]
    /\ pc' = [pc EXCEPT ![t] = "end"]
    /\ UNCHANGED <<isolation, txn, call, local, ncalls, both, memVars, prepVars>>

\* @transact closes the transaction (commit, or rollback when the method
\* raised: a method that raises has written nothing) and the caller gets
\* the outcome.
End(t) ==
    /\ pc[t] = "end"
    /\ txn' = IF txn = t THEN NoTask ELSE txn
    /\ pc' = [pc EXCEPT ![t] = "idle"]
    /\ call' = [call EXCEPT ![t] = NoCall]
    /\ res' = [res EXCEPT ![t] = NoOutcome]
    /\ UNCHANGED <<db, isolation, local, ncalls, both, memVars, prepVars>>

NextDB ==
    \E t \in Tasks :
        \/ DataBaseCall(t)
        \/ Begin(t)
        \/ Known(t)
        \/ Check(t)
        \/ Add(t)
        \/ Write(t)
        \/ DataBaseRemove(t)
        \/ DataBaseRead(t)
        \/ End(t)

SpecDB == InitDB /\ [][NextDB]_vars

---------------------------------------------------------------------------
(* The two stores side by side: one caller hands every call to both, each *)
(* store runs it to its end, and generate() returns the same pair to both. *)

taskVars == <<pc, call, local, res>>

\* One call answered by both stores.
Entry(c, mem, d) == [call |-> c, mem |-> mem, db |-> d]

\* The record of the lockstep calls after call c: the last call, its two
\* outcomes, and the log of the create, update and delete calls that a
\* store has carried out so far.
Lockstep(c, mem, d) ==
    [call |-> c, mem |-> mem, db |-> d,
     log |-> IF c.op # "get" /\ (mem.status = "ok" \/ d.status = "ok")
             THEN Append(both.log, Entry(c, mem, d))
             ELSE both.log]

BothCreate ==
    /\ ncalls < MaxCalls
    /\ \E c \in ResourceCalls, gen \in Generated :
        /\ c.op = "create"
        /\ \E credentials \in get_credentials(db, _get_auth(c.token, gen).username) :
            LET m == MemoryCreate(items, c.user, c.token, gen)
                d == DataBaseCreate(db, c.user, c.token, gen, credentials)
            IN  /\ items' = m.store
                /\ db' = d.store
                /\ both' = Lockstep(c, m.res, d.res)
    /\ ncalls' = ncalls + 1
    /\ UNCHANGED <<lockVars, isolation, txn, taskVars, prepVars>>

BothUpdate ==
    /\ ncalls < MaxCalls
    /\ \E c \in ResourceCalls, gen \in Generated :
        /\ c.op = "update"
        /\ \E credentials \in get_credentials(db, _get_auth(c.token, gen).username) :
            LET m == MemoryUpdate(items, c.user, c.token, gen)
                d == DataBaseUpdate(db, c.user, c.token, gen, credentials)
            IN  /\ items' = m.store
                /\ db' = d.store
                /\ both' = Lockstep(c, m.res, d.res)
    /\ ncalls' = ncalls + 1
    /\ UNCHANGED <<lockVars, isolation, txn, taskVars, prepVars>>

BothDelete ==
    /\ ncalls < MaxCalls
    /\ \E c \in ResourceCalls :
        /\ c.op = "delete"
        /\ LET m == SampleDelete(items, c.user)
               d == DataBaseDelete(db, c.user)
           IN  /\ items' = m.store
               /\ db' = d.store
               /\ both' = Lockstep(c, m.res, d.res)
    /\ ncalls' = ncalls + 1
    /\ UNCHANGED <<lockVars, isolation, txn, taskVars, prepVars>>

BothGet ==
    /\ ncalls < MaxCalls
    /\ \E c \in ResourceCalls :
        /\ c.op = "get"
        /\ LET m == SampleGet(items, c.user)
               d == DataBaseGet(db, c.user)
           IN  /\ items' = m.store
               /\ db' = d.store
               /\ both' = Lockstep(c, m.res, d.res)
    /\ ncalls' = ncalls + 1
    /\ UNCHANGED <<lockVars, isolation, txn, taskVars, prepVars>>

NextBoth == BothCreate \/ BothUpdate \/ BothDelete \/ BothGet

SpecBoth == Init /\ [][NextBoth]_vars

---------------------------------------------------------------------------
(* _prep_token applied to a token, and again to what it returned *)

InitPrep ==
    /\ Init!1 /\ Init!2 /\ Init!3 /\ Init!4 /\ Init!5 /\ Init!6
    /\ Init!7 /\ Init!8 /\ Init!9 /\ Init!10 /\ Init!11 /\ Init!12
    /\ ptok \in PrepInputs
    /\ pout = None
    /\ pn = 0

PrepToken ==
    /\ pn < MaxPrep
    /\ pout' = _prep_token(IF pn = 0 THEN ptok ELSE pout)
    /\ pn' = pn + 1
    /\ UNCHANGED <<items, lockVars, dbVars, taskVars, ncalls, both, ptok>>

NextPrep == PrepToken

SpecPrep == InitPrep /\ [][NextPrep]_vars

---------------------------------------------------------------------------
(* The in-memory store under the event loop's scheduling: a task that can *)
(* take its next step is eventually run.  Calling is left to the callers, *)
(* who issue a finite set of operations: one call of each method, with    *)
(* arguments that lead through every exit (success, InvalidDetails,       *)
(* AlreadyExists, NotFound).                                               *)

LivenessCalls ==
    { Call("create", "u1", << "a", ":", "x" >>, <<>>, <<>>),
      Call("create", "u2", << "a", ":", "y" >>, <<>>, <<>>),
      Call("update", "u2", << "b", ":", "x" >>, <<>>, <<>>),
      Call("delete", "u1", None, <<>>, <<>>),
      Call("get", "u1", None, <<>>, <<>>),
      Call("credentials_match", NoUser, None, << "a" >>, << "x" >>),
      Call("get_all", NoUser, None, <<>>, <<>>),
      Call("api_credentials_match", NoUser, None, << "a" >>, << "x" >>) }

\* Every step of task t but the call itself.
Step(t) ==
    \/ Acquire(t)
    \/ Prepare(t)
    \/ Create(t)
    \/ Update(t)
    \/ Delete(t)
    \/ Get(t)
    \/ CredentialsMatch(t)
    \/ GetAll(t)
    \/ ApiCredentialsMatch(t)
    \/ Return(t)
    \/ Release(t)

NextFair ==
    \E t \in Tasks :
        \/ MemoryCall(t) /\ call'[t] \in LivenessCalls
        \/ Step(t)

SpecFair == Init /\ [][NextFair]_vars /\ \A t \in Tasks : WF_vars(Step(t))

---------------------------------------------------------------------------
(* Properties *)

\* The usernames of the records of a mapping of tokens are pairwise
\* different.
UniqueUsernames(its) ==
    \A u1, u2 \in DOMAIN its :
        u1 # u2 => from_token(its[u1]).username # from_token(its[u2]).username

\* Task t has been refused a create or update because another user holds
\* the username of its token.
RefusedDuplicate(t, last) ==
    /\ pc[t] = last
    /\ call[t].op \in { "create", "update" }
    /\ res[t].status = "InvalidDetails"
    /\ IsRawToken(call[t].token)

\* C1: in-memory store, under every interleaving of concurrent calls: no
\* two stored records of different users have tokens with the same username.
C1_MemoryUsernamesUnique == UniqueUsernames(items)

\* C1 witness: two users hold records and a third call, for a username one
\* of them holds, has been refused.
C1_Witness ==
    /\ Cardinality(DOMAIN items) = 2
    /\ \E t \in Tasks : RefusedDuplicate(t, "release")

\* C2: database store, transactions serializable: no two persisted records
\* of different users share a username.
C2_DataBaseUsernamesUnique ==
    isolation = "serializable" =>
        \A u1, u2 \in DOMAIN db : u1 # u2 => db[u1].username # db[u2].username

\* C2 witness: under serializable isolation two users hold records and a
\* transaction for a username one of them holds has been refused.
C2_Witness ==
    /\ isolation = "serializable"
    /\ Cardinality(DOMAIN db) = 2
    /\ \E t \in Tasks : RefusedDuplicate(t, "end")

\* C3: in-memory store: credentials_match(username, password) returns true
\* exactly when some stored token has that username and the password
\* component hash(password); it raises nothing and leaves the mapping as
\* it was.
C3_CredentialsMatchIffStored ==
    [][\A t \in Tasks :
          (call[t].op = "credentials_match" /\ pc[t] = "body"
           /\ pc'[t] = "release")
          => /\ items' = items
             /\ res'[t].status = "ok"
             /\ res'[t].match <=>
                   \E u \in DOMAIN items :
                       from_token(items[u]) =
                           [username |-> call[t].username,
                            password |-> hash_token256(call[t].password)]
      ]_vars

\* C3 witness: credentials_match has answered true.
C3_Witness ==
    \E t \in Tasks :
        /\ pc[t] = "release"
        /\ call[t].op = "credentials_match"
        /\ res[t].match

\* The (user, username) records of the in-memory store.
MemoryRecords(its) ==
    { << u, from_token(its[u]).username >> : u \in DOMAIN its }

\* The (user, username) records of the database store.
DataBaseRecords(d) == { << u, d[u].username >> : u \in DOMAIN d }

\* The last call handed to both stores carried a raw two-part token, or
\* needed none.
SuppliedCall(c) == c.op \in { "create", "update" } => IsRawToken(c.token)

\* C4: for every sequence of create, get, update and delete calls, the two
\* stores give the same outcome at each step (success, AlreadyExists,
\* NotFound or InvalidDetails) and hold the same (user, username) records
\* afterwards.  Stated for the calls whose token is 'username:plaintext'.
C4_StoresAgree ==
    SuppliedCall(both.call) =>
        /\ both.mem.status = both.db.status
        /\ MemoryRecords(items) = DataBaseRecords(db)

\* C4, the part of it that holds: the two stores hold the same
\* (user, username) records after every call, and give the same outcome
\* whenever neither refuses the call.
C4_StoresAgreeOnSuccess ==
    /\ MemoryRecords(items) = DataBaseRecords(db)
    /\ (both.mem.status = "ok" \/ both.db.status = "ok")
           => both.mem.status = both.db.status

\* C5: update(user, details) for a user without a record fails with
\* NotFound in both stores, whatever the token (a token whose username
\* another user holds included), and creates no record.  Stated for the
\* tokens 'username:plaintext'.
C5_UpdateAbsentIsNotFound ==
    [][(/\ both'.call.op = "update"
        /\ IsRawToken(both'.call.token)
        /\ ncalls' = ncalls + 1
        /\ both'.call.user \notin DOMAIN items
        /\ both'.call.user \notin DOMAIN db)
       => /\ both'.mem.status = "NotFound"
          /\ both'.db.status = "NotFound"
          /\ items' = items
          /\ db' = db
      ]_vars

\* C5, the part of it that holds: update for a user without a record
\* creates no record in either store, and the database store answers
\* NotFound.
C5_UpdateAbsentCreatesNothing ==
    [][(/\ both'.call.op = "update"
        /\ ncalls' = ncalls + 1
        /\ both'.call.user \notin DOMAIN items
        /\ both'.call.user \notin DOMAIN db)
       => /\ both'.mem.status \in { "NotFound", "InvalidDetails" }
          /\ both'.db.status = "NotFound"
          /\ items' = items
          /\ db' = db
      ]_vars

\* Task t's create or update ends in this step.
Ends(t, op) ==
    /\ call[t].op = op
    /\ pc[t] \in { "body", "super" }
    /\ pc'[t] = "release"

\* C6: in-memory store: create(details) for a user that already has a
\* record fails with AlreadyExists, whatever the token, and leaves the
\* record as it was.  Stated for the tokens 'username:plaintext'.
C6_CreateExistingIsAlreadyExists ==
    [][\A t \in Tasks :
          (/\ Ends(t, "create")
           /\ IsRawToken(call[t].token)
           /\ call[t].user \in DOMAIN items)
          => /\ res'[t].status = "AlreadyExists"
             /\ items' = items
      ]_vars

\* C6, the part of it that holds: create for a user that already has a
\* record fails and leaves the mapping as it was.
C6_CreateExistingFails ==
    [][\A t \in Tasks :
          (Ends(t, "create") /\ call[t].user \in DOMAIN items)
          => /\ res'[t].status \in { "AlreadyExists", "InvalidDetails" }
             /\ items' = items
      ]_vars

\* C7: every public operation of the in-memory store holds the lock for
\* its whole body: a task inside the body of an operation is the holder of
\* the lock.  Stated for the operations that read or write the mapping.
C7_BodyHoldsLock ==
    \A t \in Tasks :
        (pc[t] \in { "body", "super", "release" }
         /\ call[t].op # "api_credentials_match")
            => lock = t

\* C7, the part of it that holds: a task inside the body of a @locking
\* method is the holder of the lock.
C7_LockingBodyHoldsLock ==
    \A t \in Tasks :
        (pc[t] \in { "body", "super", "release" } /\ call[t].op \in Locking)
            => lock = t

\* C8: in-memory store: the lock is released on every exit path, errors
\* included: the lock is held exactly while a @locking method runs, so it
\* is free once every operation has completed, and every task waiting for
\* the lock eventually acquires it and completes.
C8_LockReleasedAndNoStarvation ==
    /\ [](lock = NoTask <=>
             ~\E t \in Tasks :
                 pc[t] \in { "body", "super", "release" } /\ call[t].op \in Locking)
    /\ []((\A t \in Tasks : pc[t] = "idle") => (lock = NoTask /\ waiters = <<>>))
    /\ \A t \in Tasks : (pc[t] = "acquire") ~> (pc[t] = "body" /\ lock = t)
    /\ \A t \in Tasks : (pc[t] = "acquire") ~> (pc[t] = "idle")

\* C8 witness: a task waits for the lock while another, whose operation
\* has failed, still holds it.
C8_Witness ==
    \E t, o \in Tasks :
        /\ pc[t] = "acquire"
        /\ pc[o] = "release"
        /\ lock = o
        /\ res[o].status \in { "InvalidDetails", "AlreadyExists", "NotFound" }

\* C9: in-memory store: the password component of every stored token is an
\* output of the hash function, never a password as supplied or generated.
C9_StoredPasswordsAreHashes ==
    \A u \in DOMAIN items : IsHashOutput(from_token(items[u]).password)

\* C9, the part of it that holds: a successful create with a supplied
\* two-part token 'username:plaintext' stores, and returns,
\* 'username:hash(plaintext)'.
C9_SuppliedPasswordIsHashed ==
    [][\A t \in Tasks :
          (/\ Ends(t, "create")
           /\ res'[t].status = "ok"
           /\ IsRawToken(call[t].token))
          => /\ call[t].user \in DOMAIN items'
             /\ items'[call[t].user] = res'[t].token
             /\ from_token(items'[call[t].user]) =
                    [username |-> from_token(call[t].token).username,
                     password |->
                         hash_token256(from_token(call[t].token).password)]
             /\ from_token(items'[call[t].user]).password
                    # from_token(call[t].token).password
      ]_vars

\* C10: _prep_token is idempotent on its own output: for every raw token
\* 'username:plaintext', _prep_token(_prep_token(token)) equals
\* _prep_token(token).
C10_PrepTokenIdempotent ==
    (pn = 2 /\ IsRawToken(ptok)) => pout = _prep_token(ptok)

\* C10, what holds instead: the second application hashes the digest
\* again.
C10_PrepTokenHashesAgain ==
    (pn = 2 /\ IsRawToken(ptok)) =>
        pout = join(<< from_token(ptok).username,
                       hash_token256(hash_token256(from_token(ptok).password)) >>)

\* Task t's update, called with the token its user's record holds (the
\* token get(user) returns), a token made from 'username:plaintext', ends
\* in this step.
UpdateWithStoredToken(t) ==
    /\ Ends(t, "update")
    /\ call[t].user \in DOMAIN items
    /\ call[t].token = items[call[t].user]
    /\ IsHashOutput(from_token(items[call[t].user]).password)

\* C11: in-memory store: an already-hashed value is never hashed again: for
\* a record created from 'username:plaintext', update(user, {token: T})
\* with T the stored token leaves the stored token equal to T, so that
\* credentials_match(username, plaintext) is still true afterwards.
C11_UpdateWithStoredTokenKeepsIt ==
    [][\A t \in Tasks :
          UpdateWithStoredToken(t)
          => /\ res'[t].status = "ok"
             /\ items'[call[t].user] = call[t].token
             /\ \A password \in MatchPasswords :
                    Memory_credentials_match(items, from_token(call[t].token).username,
                                             password)
                    => Memory_credentials_match(items',
                                                from_token(call[t].token).username,
                                                password)
      ]_vars

\* C11, what holds instead: update with the stored token T = 'username:hash'
\* stores 'username:hash(hash)'.
C11_UpdateWithStoredTokenHashesAgain ==
    [][\A t \in Tasks :
          UpdateWithStoredToken(t)
          => /\ res'[t].status = "ok"
             /\ items'[call[t].user] =
                    join(<< from_token(call[t].token).username,
                            hash_token256(from_token(call[t].token).password) >>)
      ]_vars

\* This step is a call handed to both stores; both'.call is the call.
LockstepCall == ncalls' = ncalls + 1

\* The mapping after is the mapping before without the record of user.
Removed(before, after, user) ==
    /\ DOMAIN after = DOMAIN before \ { user }
    /\ \A u \in DOMAIN after : after[u] = before[u]

\* C12: in both stores delete(user) on an existing record succeeds and
\* removes exactly that record; delete(user) and get(user) on a user
\* without a record fail with NotFound and change nothing; and a user
\* without a record gets one only by a create of that user.
C12_DeleteThenNotFound ==
    [][LockstepCall =>
          LET c == both'.call
          IN  /\ (c.op = "delete" /\ c.user \in DOMAIN items /\ c.user \in DOMAIN db)
                  => /\ both'.mem.status = "ok"
                     /\ both'.db.status = "ok"
                     /\ Removed(items, items', c.user)
                     /\ Removed(db, db', c.user)
              /\ (c.op \in { "delete", "get" }
                  /\ c.user \notin DOMAIN items /\ c.user \notin DOMAIN db)
                  => /\ both'.mem.status = "NotFound"
                     /\ both'.db.status = "NotFound"
                     /\ items' = items
                     /\ db' = db
              /\ \A u \in Users :
                    (u \notin DOMAIN items /\ u \in DOMAIN items')
                    \/ (u \notin DOMAIN db /\ u \in DOMAIN db')
                    => c.op = "create" /\ c.user = u
      ]_vars

\* C12 witness: a user was created, then deleted, and a second delete of
\* that user has failed with NotFound in both stores.
C12_Witness ==
    /\ Len(both.log) = 2
    /\ both.log[1].call.op = "create"
    /\ both.log[2].call.op = "delete"
    /\ both.log[2].call.user = both.log[1].call.user
    /\ both.log[2].mem.status = "ok" /\ both.log[2].db.status = "ok"
    /\ both.call.op = "delete"
    /\ both.call.user = both.log[1].call.user
    /\ both.mem.status = "NotFound" /\ both.db.status = "NotFound"
    /\ items = <<>> /\ db = <<>>

\* C13: in-memory store: api_credentials_match(username, password) returns
\* true exactly when username is 'user' and password is 'pass', compared as
\* given, without hashing, whatever the stored collection holds; it raises
\* nothing and none of its steps modifies the collection.
C13_ApiCredentialsMatchFixedPair ==
    [][\A t \in Tasks :
          (call[t].op = "api_credentials_match" /\ pc'[t] # pc[t])
          => /\ items' = items
             /\ pc[t] = "body"
                => /\ res'[t].status = "ok"
                   /\ res'[t].match <=>
                         /\ call[t].username = << "u", "s", "e", "r" >>
                         /\ call[t].password = << "p", "a", "s", "s" >>
      ]_vars

\* C13 witness: api_credentials_match has answered true while the
\* collection holds a record.
C13_Witness ==
    \E t \in Tasks :
        /\ pc[t] = "return"
        /\ call[t].op = "api_credentials_match"
        /\ res[t].match
        /\ items # <<>>

\* The errors of the resource contract.
Errors == { "AlreadyExists", "NotFound", "InvalidDetails" }

\* C14: a create, update, get or delete call that fails with AlreadyExists,
\* NotFound or InvalidDetails leaves the records as they were before the
\* call: the in-memory mapping is unchanged, and the database method raised
\* before add_credentials, update_credentials or remove_credentials wrote.
C14_FailedCallChangesNothing ==
    [][LockstepCall =>
          /\ both'.mem.status \in Errors \cup { "ok" }
          /\ both'.db.status \in Errors \cup { "ok" }
          /\ both'.mem.status \in Errors => items' = items
          /\ both'.db.status \in Errors => db' = db
      ]_vars

\* C14 witness: two users hold records and an update of one of them to the
\* other's username has failed with InvalidDetails in both stores.
C14_Witness ==
    /\ Len(both.log) = 2
    /\ Cardinality(DOMAIN items) = 2 /\ Cardinality(DOMAIN db) = 2
    /\ both.call.op = "update"
    /\ IsRawToken(both.call.token)
    /\ both.call.user \in DOMAIN items
    /\ both.mem.status = "InvalidDetails"
    /\ both.db.status = "InvalidDetails"

\* A record of a user other than user holds username, in the in-memory
\* mapping its and in the table d.
HeldByOther(its, d, user, username) ==
    \/ \E o \in DOMAIN its \ { user } : from_token(its[o]).username = username
    \/ \E o \in DOMAIN d \ { user } : d[o].username = username

\* C15: the uniqueness check excludes the calling user's own record: in
\* both stores update(user, token) on an existing user fails with
\* InvalidDetails exactly when a record of a different user has the token's
\* username, and succeeds otherwise (the username is the user's own or
\* unused), the user's record then holding that username.
C15_UpdateExcludesOwnRecord ==
    [][(/\ LockstepCall
        /\ both'.call.op = "update"
        /\ IsRawToken(both'.call.token)
        /\ both'.call.user \in DOMAIN items
        /\ both'.call.user \in DOMAIN db)
       => LET user == both'.call.user
              username == from_token(both'.call.token).username
          IN  IF HeldByOther(items, db, user, username)
              THEN /\ both'.mem.status = "InvalidDetails"
                   /\ both'.db.status = "InvalidDetails"
              ELSE /\ both'.mem.status = "ok"
                   /\ both'.db.status = "ok"
                   /\ from_token(items'[user]).username = username
                   /\ db'[user].username = username
      ]_vars

\* C15 witness: a user created with a username has been updated, in both
\* stores, with a token of the same username and another password.
C15_Witness ==
    /\ Len(both.log) = 2
    /\ both.log[1].call.op = "create"
    /\ both.log[2].call.op = "update"
    /\ both.log[2].call = both.call
    /\ both.log[1].call.user = both.call.user
    /\ IsRawToken(both.log[1].call.token) /\ IsRawToken(both.call.token)
    /\ from_token(both.log[1].call.token).username
           = from_token(both.call.token).username
    /\ both.log[1].call.token # both.call.token
    /\ both.mem.status = "ok" /\ both.db.status = "ok"

\* Two records of the table share a username.
SharedUsername(d) ==
    \E u1, u2 \in DOMAIN d : u1 # u2 /\ d[u1].username = d[u2].username

\* C16: database store: username uniqueness rests on the isolation of the
\* transactions alone.  The write that follows _check_duplicated_username
\* (add_credentials, update_credentials) is carried out whatever the table
\* holds by then, so a table with two records sharing a username is
\* reached when the steps of two transactions interleave between the check
\* and the write, and only then.
C16_UniquenessRestsOnIsolation ==
    [][/\ \A t \in Tasks :
            (/\ pc[t] = "write"
             /\ pc'[t] = "end"
             /\ call[t].op = "create" <=> call[t].user \notin DOMAIN db)
            => /\ res'[t].status = "ok"
               /\ call[t].user \in DOMAIN db'
               /\ db'[call[t].user] =
                      [username |-> from_token(local[t]).username,
                       password |-> from_token(local[t]).password]
       /\ SharedUsername(db') => isolation = "none"
      ]_vars

\* C16 witness: without isolation, two records share a username.
C16_Witness == isolation = "none" /\ SharedUsername(db)

\* The usernames create may give the record for a token: the token's own,
\* or a generated one when no token is supplied.
UsernamesFor(token) ==
    IF token = None \/ token = <<>>
    THEN { gen.username : gen \in Generated }
    ELSE { from_token(token).username }

\* C17: database store: create checks the user key before the token.  For
\* a known user it fails with AlreadyExists whatever the token, also when
\* the token's username belongs to another user; it fails with
\* InvalidDetails only for an unknown user whose username a different user
\* owns; otherwise it persists exactly one new record, for that user.
\* Malformed tokens aside for the last two.
C17_DataBaseCreateChecksUserFirst ==
    [][(LockstepCall /\ both'.call.op = "create")
       => LET user == both'.call.user
              token == both'.call.token
              wellformed == token = None \/ token = <<>> \/ IsRawToken(token)
              taken == \E username \in UsernamesFor(token) :
                           HeldByOther(<<>>, db, user, username)
          IN  /\ user \in DOMAIN db
                 => both'.db.status = "AlreadyExists" /\ db' = db
              /\ (wellformed /\ both'.db.status = "InvalidDetails")
                 => user \notin DOMAIN db /\ taken /\ db' = db
              /\ (wellformed /\ user \notin DOMAIN db /\ ~taken)
                 => both'.db.status = "ok"
              /\ both'.db.status = "ok"
                 => /\ user \notin DOMAIN db
                    /\ DOMAIN db' = DOMAIN db \cup { user }
                    /\ \A u \in DOMAIN db : db'[u] = db[u]
                    /\ db'[user].username \in UsernamesFor(token)
                    /\ join(<< db'[user].username, db'[user].password >>)
                           = both'.db.token
      ]_vars

\* C17 witness: create for a known user, with a token whose username
\* another user's record holds, has failed with AlreadyExists.
C17_Witness ==
    /\ both.call.op = "create"
    /\ IsRawToken(both.call.token)
    /\ both.call.user \in DOMAIN db
    /\ HeldByOther(<<>>, db, both.call.user, from_token(both.call.token).username)
    /\ both.db.status = "AlreadyExists"

\* The positions of the colons of a string.
Colons(s) == { i \in 1..Len(s) : s[i] = Colon }

\* The token has exactly two non-empty colon-separated parts: one colon,
\* neither first nor last.
TwoNonEmptyParts(token) ==
    /\ token # None
    /\ Cardinality(Colons(token)) = 1
    /\ \A i \in Colons(token) : 1 < i /\ i < Len(token)

\* 'username:hash(second part)' for a token of two non-empty parts, the
\* token itself otherwise.
HashedSecondPart(token) ==
    IF TwoNonEmptyParts(token)
    THEN LET i == CHOOSE k \in Colons(token) : TRUE
         IN  SubSeq(token, 1, i - 1) \o << Colon >>
                 \o hash_token256(SubSeq(token, i + 1, Len(token)))
    ELSE token

\* C18: _prep_token returns 'username:hash(second part)' when the token has
\* exactly two non-empty colon-separated parts, and its input unchanged in
\* every other case: no colon, an empty component, more than one colon, no
\* token at all.
C18_PrepTokenHashesSecondPart ==
    /\ pn = 1 => pout = HashedSecondPart(ptok)
    /\ pn = 2 => pout = HashedSecondPart(HashedSecondPart(ptok))

\* C18 witness: _prep_token has returned unchanged a token with one colon
\* and an empty component.
C18_Witness ==
    /\ pn = 1
    /\ ptok # None
    /\ Cardinality(Colons(ptok)) = 1
    /\ ~TwoNonEmptyParts(ptok)
    /\ pout = ptok

\* The last call was carried out by a store, so it is the log's last entry.
LastCallLogged ==
    both.call.op # "get" /\ (both.mem.status = "ok" \/ both.db.status = "ok")

\* The calls carried out before the last call.
Prior ==
    IF LastCallLogged THEN SubSeq(both.log, 1, Len(both.log) - 1) ELSE both.log

\* The username a logged create or update gave its user's record.
EntryUsername(e) == from_token(e.db.token).username

\* The last of the calls before the last call released username: it is a
\* delete by user, or an update by user to another username, and the
\* record of user held username until then.
ReleasedBy(user, username) ==
    /\ Len(Prior) >= 2
    /\ LET release == Prior[Len(Prior)]
       IN  /\ release.call.user = user
           /\ \/ release.call.op = "delete"
              \/ release.call.op = "update" /\ EntryUsername(release) # username
           /\ \E k \in 1..(Len(Prior) - 1) :
                 /\ Prior[k].call.user = user
                 /\ Prior[k].call.op \in { "create", "update" }
                 /\ EntryUsername(Prior[k]) = username
                 /\ \A j \in (k + 1)..(Len(Prior) - 1) : Prior[j].call.user # user

===========================================================================
